---- MODULE Spec2Model ----
(***************************************************************************)
(* Model of dmp_streamlit_app.py: the word-limit validator (word_count,    *)
(* text_section, the form's within_limits flag), the long-token breaker,   *)
(* the PDF builder (as the ordered list of text blocks it hands to fpdf)   *)
(* and the script's evaluation cycle (form, then download block).          *)
(*                                                                         *)
(* Text is a sequence of one-character strings.  A Python value that may   *)
(* be None is the record [none, str].                                      *)
(***************************************************************************)
EXTENDS Integers, Sequences, FiniteSets, TLC

VARIABLES
    font_exists,      \* the font asset at FONT_PATH is on disk
    sections,         \* the script's dict title -> text, in insertion order
    oks,              \* the script's list of per-section flags
    within_limits,    \* all(oks)
    submitted,        \* st.form_submit_button("Prepare PDF")
    pdf_bytes,        \* what build_pdf_bytes returned in this cycle, if called
    page,             \* what the cycle put on the page
    pc,               \* position of a direct call of one function
    args,             \* arguments of that call
    ret               \* its outcome

formVars == <<font_exists, sections, oks, within_limits, submitted, pdf_bytes, page>>
callVars == <<pc, args, ret>>
vars == <<font_exists, sections, oks, within_limits, submitted, pdf_bytes, page, pc, args, ret>>

----------------------------------------------------------------------------
(* Bounds of the inputs *)

MaxLen == 5            \* longest enumerated text
MaxThreshold == 2      \* largest enumerated maxlen of break_long_tokens
MaxWords == 2          \* largest enumerated word limit of text_section
MaxSections == 2       \* longest section sequence handed to build_pdf_bytes

----------------------------------------------------------------------------
(* Python values *)

None == [none |-> TRUE, str |-> <<>>]
Str(s) == [none |-> FALSE, str |-> s]

Return(v) == [raised |-> FALSE, exc |-> "", value |-> v]
Raise(e, v) == [raised |-> TRUE, exc |-> e, value |-> v]

Whitespace == {" ", "\t", "\n"}
isspace(c) == c \in Whitespace

Alphabet == {"a", "b", " ", "\n"}
Texts(n) == UNION {[1..k -> Alphabet] : k \in 0..n}

\* n copies of the word w joined by single spaces
Words(n, w) == [i \in 1..(IF n = 0 THEN 0 ELSE n * (Len(w) + 1) - 1) |->
                  IF i % (Len(w) + 1) = 0 THEN " " ELSE w[i % (Len(w) + 1)]]
\* one token of n characters
Token(n) == [i \in 1..n |-> IF i % 2 = 1 THEN "a" ELSE "b"]

----------------------------------------------------------------------------
(* word_count: len(text.split()) *)

\* str.split() with no separator: the tokens are the maximal runs of
\* non-whitespace characters; a token starts where a non-whitespace character
\* has no non-whitespace character before it.
split_starts(s) == {i \in 1..Len(s) : ~isspace(s[i]) /\ (i = 1 \/ isspace(s[i-1]))}

\* len(text.split(" ")): one more than the number of spaces
word_count_sep(text) ==
    IF text.none THEN Raise("AttributeError", 0)
    ELSE Return(Cardinality({i \in 1..Len(text.str) : text.str[i] = " "}) + 1)

word_count(text) ==
    IF text.none THEN Raise("AttributeError", 0)
    ELSE Return(Cardinality(split_starts(text.str)))

----------------------------------------------------------------------------
(* text_section *)

\* ok = wc < max_words
text_section_strict(text_area, max_words) ==
    LET wc == word_count(text_area) IN
    IF wc.raised THEN Raise(wc.exc, [text |-> text_area, caption |-> 0, ok |-> FALSE, warning |-> FALSE])
    ELSE LET ok == wc.value < max_words IN
         Return([text |-> text_area, caption |-> wc.value, ok |-> ok, warning |-> ~ok])

\* text_area is what st.text_area(label, height=150) returned
text_section(text_area, max_words) ==
    LET wc == word_count(text_area) IN
    IF wc.raised THEN Raise(wc.exc, [text |-> text_area, caption |-> 0, ok |-> FALSE, warning |-> FALSE])
    ELSE LET ok == wc.value <= max_words IN
         Return([text |-> text_area, caption |-> wc.value, ok |-> ok, warning |-> ~ok])

----------------------------------------------------------------------------
(* break_long_tokens *)

RECURSIVE join(_, _)
\* sep.join(parts)
join(sep, parts) ==
    IF Len(parts) = 0 THEN <<>>
    ELSE IF Len(parts) = 1 THEN parts[1]
    ELSE parts[1] \o sep \o join(sep, Tail(parts))

\* tok[i:i+maxlen] for i in range(0, len(tok), maxlen), joined by " "
_breaker(tok, maxlen) ==
    LET n == (Len(tok) + maxlen - 1) \div maxlen
        hi(k) == IF k * maxlen < Len(tok) THEN k * maxlen ELSE Len(tok)
    IN  join(<<" ">>, [k \in 1..n |-> SubSeq(tok, (k - 1) * maxlen + 1, hi(k))])

\* \S{maxlen+2,}: a run of maxlen+1 characters is let through
re_match_at_loose(s, i, maxlen) ==
    /\ i + maxlen + 1 <= Len(s)
    /\ \A k \in i..(i + maxlen + 1) : ~isspace(s[k])

\* \S{maxlen+1,} matches at i: maxlen+1 non-whitespace characters from i on
re_match_at(s, i, maxlen) ==
    /\ i + maxlen <= Len(s)
    /\ \A k \in i..(i + maxlen) : ~isspace(s[k])

\* start of the leftmost match at or after pos, 0 when there is none
re_search(s, pos, maxlen) ==
    IF \E i \in pos..Len(s) : re_match_at(s, i, maxlen)
    THEN CHOOSE i \in pos..Len(s) :
           /\ re_match_at(s, i, maxlen)
           /\ \A k \in pos..(i - 1) : ~re_match_at(s, k, maxlen)
    ELSE 0

\* the quantifier is greedy: the match runs to the end of the run
re_match_end(s, m) ==
    CHOOSE e \in m..Len(s) :
      /\ e = Len(s) \/ isspace(s[e + 1])
      /\ \A k \in m..e : ~isspace(s[k])

RECURSIVE re_sub(_, _, _)
\* re.sub(pattern, _breaker, s) from position pos on
re_sub(s, pos, maxlen) ==
    LET m == re_search(s, pos, maxlen) IN
    IF m = 0 THEN SubSeq(s, pos, Len(s))
    ELSE LET e == re_match_end(s, m) IN
         SubSeq(s, pos, m - 1) \o _breaker(SubSeq(s, m, e), maxlen) \o re_sub(s, e + 1, maxlen)

break_long_tokens(s, maxlen) ==
    re_sub(IF s.none THEN <<>> ELSE s.str, 1, maxlen)

----------------------------------------------------------------------------
(* build_pdf_bytes *)

DEFAULT_MAXLEN == 80
HEADER == <<"D","a","t","a"," ","M","a","n","a","g","e","m","e","n","t"," ","P","l","a","n"," ","S","u","b","m","i","s","s","i","o","n">>
GENERATED == <<"G","e","n","e","r","a","t","e","d",":"," ">>
NO_RESPONSE == <<"[","N","o"," ","r","e","s","p","o","n","s","e"," ","p","r","o","v","i","d","e","d","]">>

\* str.strip()
strip(s) ==
    IF \A i \in 1..Len(s) : isspace(s[i]) THEN <<>>
    ELSE LET b == CHOOSE i \in 1..Len(s) : ~isspace(s[i]) /\ \A k \in 1..(i - 1) : isspace(s[k])
             e == CHOOSE i \in 1..Len(s) : ~isspace(s[i]) /\ \A k \in (i + 1)..Len(s) : isspace(s[k])
         IN  SubSeq(s, b, e)

Digit(d) == <<"0", "1", "2", "3", "4", "5", "6", "7", "8", "9">>[d + 1]
Pad2(n) == <<Digit((n \div 10) % 10), Digit(n % 10)>>
Pad4(n) == <<Digit((n \div 1000) % 10), Digit((n \div 100) % 10)>> \o Pad2(n)

\* f"{t:%Y-%m-%d %H:%M}"
strftime(t) ==
    Pad4(t.year) \o <<"-">> \o Pad2(t.month) \o <<"-">> \o Pad2(t.day) \o <<" ">>
      \o Pad2(t.hour) \o <<":">> \o Pad2(t.minute)

\* one call of pdf.cell / pdf.multi_cell after pdf.set_font("DejaVu", size)
Block(call, size, txt) == [call |-> call, size |-> size, txt |-> txt]

\* body = content or "[No response provided]", without the strip
body_of_unstripped(content) ==
    LET given == IF content.none THEN <<>> ELSE content.str IN
    break_long_tokens(Str(IF given = <<>> THEN NO_RESPONSE ELSE given), DEFAULT_MAXLEN)

\* body = (content or "").strip() or "[No response provided]"
body_of(content) ==
    LET stripped == strip(IF content.none THEN <<>> ELSE content.str) IN
    break_long_tokens(Str(IF stripped = <<>> THEN NO_RESPONSE ELSE stripped), DEFAULT_MAXLEN)

RECURSIVE layout_sections_breaking_titles(_)
\* the heading, too, goes through break_long_tokens
layout_sections_breaking_titles(items) ==
    IF Len(items) = 0 THEN <<>>
    ELSE <<Block("multi_cell", 11, break_long_tokens(Str(items[1].title), DEFAULT_MAXLEN)),
           Block("multi_cell", 10, body_of(items[1].content))>>
           \o layout_sections_breaking_titles(Tail(items))

RECURSIVE layout_sections(_)
\* for title, content in sections.items(): heading, then body
layout_sections(items) ==
    IF Len(items) = 0 THEN <<>>
    ELSE <<Block("multi_cell", 11, items[1].title), Block("multi_cell", 10, body_of(items[1].content))>>
           \o layout_sections(Tail(items))

\* set_font falls back to a built-in font when DejaVu was never registered
build_pdf_bytes_fallback(items, asset, clock) ==
    Return(<<Block("cell", 12, HEADER), Block("cell", 10, GENERATED \o strftime(clock))>>
             \o layout_sections(items))

\* add_font fails when the asset is missing and the failure is swallowed;
\* set_font("DejaVu") then raises because the family was never registered.
build_pdf_bytes(items, asset, clock) ==
    IF ~asset THEN Raise("FPDFException", <<>>)
    ELSE Return(<<Block("cell", 12, HEADER), Block("cell", 10, GENERATED \o strftime(clock))>>
                  \o layout_sections(items))

----------------------------------------------------------------------------
(* The script: the form, then the download block *)

\* the ten fields of dmp_form in the order the script creates them; the
\* ranking field is a st.text_input with oks.append(True)
FORM_FIELDS ==
    << 
       [title |-> <<"D","a","t","a"," ","D","e","s","c","r","i","p","t","i","o","n">>,
        limited |-> TRUE, max_words |-> 150],
       [title |-> <<"S","t","o","r","a","g","e"," ","a","n","d"," ","B","a","c","k","u","p">>,
        limited |-> TRUE, max_words |-> 150],
       [title |-> <<"A","c","c","e","s","s"," ","a","n","d"," ","S","e","c","u","r","i","t","y">>,
        limited |-> TRUE, max_words |-> 150],
       [title |-> <<"L","o","n","g","-","t","e","r","m"," ","P","r","e","s","e","r","v","a","t","i","o","n">>,
        limited |-> TRUE, max_words |-> 150],
       [title |-> <<"R","o","l","e","s"," ","a","n","d"," ","R","e","s","p","o","n","s","i","b","i","l","i","t","i","e","s">>,
        limited |-> TRUE, max_words |-> 150],
       [title |-> <<"T","o","p","i","c"," ","R","a","n","k","i","n","g">>,
        limited |-> FALSE, max_words |-> 0],
       [title |-> <<"H","a","r","d","e","s","t"," ","T","o","p","i","c"," ","R","e","f","l","e","c","t","i","o","n">>,
        limited |-> TRUE, max_words |-> 50],
       [title |-> <<"E","a","s","i","e","s","t"," ","T","o","p","i","c"," ","R","e","f","l","e","c","t","i","o","n">>,
        limited |-> TRUE, max_words |-> 50],
       [title |-> <<"P","e","e","r"," ","R","e","v","i","e","w"," ","Q","u","e","s","t","i","o","n">>,
        limited |-> TRUE, max_words |-> 50],
       [title |-> <<"L","L","M"," ","A","c","k","n","o","w","l","e","d","g","e","m","e","n","t">>,
        limited |-> TRUE, max_words |-> 50] >>

\* any(oks)
any(flags) == \E k \in 1..Len(flags) : flags[k]

\* all(oks)
all(flags) == \A k \in 1..Len(flags) : flags[k]

\* what one evaluation puts on the page besides the form itself
Page(warnings, error, download, data, info, exception) ==
    [warnings |-> warnings, error |-> error, download_button |-> download,
     data |-> data, info |-> info, exception |-> exception]

NO_PDF == [built |-> FALSE, doc |-> <<>>]

\* `if submitted:` without the within_limits test
download_block_unguarded(sub, within, items, asset, clock) ==
    IF sub
    THEN LET r == build_pdf_bytes(items, asset, clock) IN
         IF r.raised
         THEN [pdf_bytes |-> NO_PDF, download_button |-> FALSE, info |-> FALSE, exception |-> r.exc]
         ELSE [pdf_bytes |-> [built |-> TRUE, doc |-> r.value], download_button |-> TRUE,
               info |-> FALSE, exception |-> ""]
    ELSE [pdf_bytes |-> NO_PDF, download_button |-> FALSE, info |-> TRUE, exception |-> ""]

\* `if 'submitted' in locals() and submitted and within_limits:` and its else
download_block(sub, within, items, asset, clock) ==
    IF sub /\ within
    THEN LET r == build_pdf_bytes(items, asset, clock) IN
         IF r.raised
         THEN [pdf_bytes |-> NO_PDF, download_button |-> FALSE, info |-> FALSE, exception |-> r.exc]
         ELSE [pdf_bytes |-> [built |-> TRUE, doc |-> r.value], download_button |-> TRUE,
               info |-> FALSE, exception |-> ""]
    ELSE [pdf_bytes |-> NO_PDF, download_button |-> FALSE, info |-> TRUE, exception |-> ""]

\* the form block: one text_section per limited field, st.text_input for the
\* ranking, then within_limits = all(oks).  widgets[k] is the text field k holds.
dmp_form(widgets) ==
    LET results == [k \in 1..Len(FORM_FIELDS) |->
                      text_section(Str(widgets[k]), FORM_FIELDS[k].max_words).value]
        flags == [k \in 1..Len(FORM_FIELDS) |->
                      IF FORM_FIELDS[k].limited THEN results[k].ok ELSE TRUE]
    IN  [sections |-> [k \in 1..Len(FORM_FIELDS) |->
                         [title |-> FORM_FIELDS[k].title, content |-> Str(widgets[k])]],
         oks |-> flags,
         within_limits |-> all(flags),
         warnings |-> {k \in 1..Len(FORM_FIELDS) : FORM_FIELDS[k].limited /\ results[k].warning}]

\* does this evaluation reach build_pdf_bytes, and with it datetime.now()
reads_clock(form, pressed) == pressed /\ form.within_limits

\* One evaluation of the script from its first line to its last: the values
\* its names hold at the end and what it put on the page.  pressed tells
\* whether the Prepare PDF button triggered it, clock is what datetime.now()
\* returns if it is read.
Script(form, pressed, asset, clock) ==
    LET dl == download_block(pressed, form.within_limits, form.sections, asset, clock) IN
    [sections |-> form.sections,
     oks |-> form.oks,
     within_limits |-> form.within_limits,
     submitted |-> pressed,
     pdf_bytes |-> dl.pdf_bytes,
     page |-> Page(form.warnings, pressed /\ ~form.within_limits, dl.download_button,
                   dl.pdf_bytes.doc, dl.info, dl.exception)]

----------------------------------------------------------------------------
(* Inputs of the evaluation cycles *)

MaxOverRun == 2        \* most adjacent fields holding a text over the limit

Instant(y, mo, d, h, mi, sec) ==
    [year |-> y, month |-> mo, day |-> d, hour |-> h, minute |-> mi, second |-> sec]
Clock == {Instant(2025, 1, 5, 9, 7, 3), Instant(2025, 1, 5, 9, 7, 58), Instant(2025, 11, 23, 14, 30, 0)}

\* a text of field k with delta words more than the field's limit; the ranking
\* field, which has no limit, is measured against the largest limit of the form
TextOf(k, delta) ==
    Words((IF FORM_FIELDS[k].limited THEN FORM_FIELDS[k].max_words ELSE 150) + delta, <<"a">>)

\* the fields over their limit are adjacent ones; the fields exactly at their
\* limit are none, one of them, or all; the others are empty
OverRuns == {lo..hi : lo \in 1..Len(FORM_FIELDS), hi \in 0..Len(FORM_FIELDS)} \cap
            {run \in SUBSET (1..Len(FORM_FIELDS)) : Cardinality(run) <= MaxOverRun}
AtLimit == {{}} \cup {{k} : k \in 1..Len(FORM_FIELDS)} \cup {1..Len(FORM_FIELDS)}

FormInputs ==
    {[k \in 1..Len(FORM_FIELDS) |->
        IF k \in over THEN TextOf(k, 1) ELSE IF k \in at THEN TextOf(k, 0) ELSE <<>>] :
     over \in OverRuns, at \in AtLimit}

EmptyForm == [k \in 1..Len(FORM_FIELDS) |-> <<>>]

----------------------------------------------------------------------------
(* The evaluation cycles *)

Apply(r) ==
    /\ sections' = r.sections
    /\ oks' = r.oks
    /\ within_limits' = r.within_limits
    /\ submitted' = r.submitted
    /\ pdf_bytes' = r.pdf_bytes
    /\ page' = r.page

\* the state the first evaluation of a session leaves: empty widgets, button
\* not pressed
FirstLoad(asset, clock) ==
    LET r == Script(dmp_form(EmptyForm), FALSE, asset, clock) IN
    /\ font_exists = asset
    /\ sections = r.sections
    /\ oks = r.oks
    /\ within_limits = r.within_limits
    /\ submitted = r.submitted
    /\ pdf_bytes = r.pdf_bytes
    /\ page = r.page

Idle == pc = "idle" /\ args = <<>> /\ ret = <<>>

Init ==
    /\ \E asset \in BOOLEAN : FirstLoad(asset, CHOOSE t \in Clock : TRUE)
    /\ Idle

\* the user edits the fields and presses Prepare PDF: the script runs with
\* the new texts and submitted = True
Submit ==
    \E widgets \in FormInputs :
      LET form == dmp_form(widgets) IN
      \E clock \in (IF reads_clock(form, TRUE) THEN Clock ELSE {CHOOSE t \in Clock : TRUE}) :
        /\ Apply(Script(form, TRUE, font_exists, clock))
        /\ UNCHANGED <<font_exists, callVars>>

\* any other rerun (the download button, a reconnect): the widgets keep the
\* texts of the last submission (clear_on_submit=False), submitted = False
Rerun ==
    LET form == dmp_form([k \in 1..Len(FORM_FIELDS) |-> sections[k].content.str]) IN
    /\ \E clock \in (IF reads_clock(form, FALSE) THEN Clock ELSE {CHOOSE t \in Clock : TRUE}) :
         Apply(Script(form, FALSE, font_exists, clock))
    /\ UNCHANGED <<font_exists, callVars>>

Next == Submit \/ Rerun

Spec == Init /\ [][Next]_vars

----------------------------------------------------------------------------
(* Direct calls of one function.  The form is in the state its first        *)
(* evaluation left and stays there.                                         *)

FormAtRest == FirstLoad(TRUE, CHOOSE t \in Clock : TRUE)

Call(result) ==
    /\ pc = "call"
    /\ pc' = "done"
    /\ ret' = result
    /\ UNCHANGED <<args, formVars>>

\* word_count(text), text a string or None
WordCountArgs == {[text |-> v] : v \in {None} \cup {Str(s) : s \in Texts(MaxLen)}}

InitWordCount == FormAtRest /\ pc = "call" /\ args \in WordCountArgs /\ ret = Return(0)
CallWordCount == Call(word_count(args.text))
NextWordCount == CallWordCount
SpecWordCount == InitWordCount /\ [][NextWordCount]_vars

\* text_section(label, max_words) with the text the text area returned
LimitTexts == {Words(n, <<"a">>) : n \in {50, 51, 150, 151}}
SectionArgs ==
    {[text |-> Str(s), max_words |-> k] :
       s \in Texts(MaxLen) \cup LimitTexts, k \in (0..MaxWords) \cup {50, 150}}
NoSection == [text |-> Str(<<>>), caption |-> 0, ok |-> FALSE, warning |-> FALSE]

InitSection == FormAtRest /\ pc = "call" /\ args \in SectionArgs /\ ret = Return(NoSection)
CallTextSection == Call(text_section(args.text, args.max_words))
NextSection == CallTextSection
SpecSection == InitSection /\ [][NextSection]_vars

\* break_long_tokens(s, maxlen): short texts with small thresholds, long
\* tokens with the default threshold
LongTexts ==
    {Token(80), Token(81), Token(200),
     <<" ">> \o Token(161) \o <<"\n", "b", " ">> \o Token(80) \o <<" ", " ">> \o Token(82)}
BreakArgs ==
    {[s |-> v, maxlen |-> m] : v \in {None} \cup {Str(t) : t \in Texts(MaxLen)}, m \in 1..MaxThreshold}
      \cup {[s |-> Str(t), maxlen |-> DEFAULT_MAXLEN] : t \in LongTexts}

InitBreak == FormAtRest /\ pc = "call" /\ args \in BreakArgs /\ ret = <<>>
CallBreakLongTokens == Call(break_long_tokens(args.s, args.maxlen))
NextBreak == CallBreakLongTokens
SpecBreak == InitBreak /\ [][NextBreak]_vars

\* build_pdf_bytes(sections): a dict, so a sequence of items with distinct titles
TITLES == {<<"A">>, <<"B", " ", "c">>, Token(81)}
CONTENTS ==
    {None, Str(<<>>), Str(<<" ", "\n">>), Str(<<"a">>), Str(<<" ", "a", " ", " ", "b", "\n">>),
     Str(NO_RESPONSE), Str(Token(81)), Str(<<"\t">> \o Token(161) \o <<" ", "b", " ">>)}
Dicts ==
    UNION {{d \in [1..n -> [title : TITLES, content : CONTENTS]] :
              \A i, j \in 1..n : d[i].title = d[j].title => i = j} : n \in 0..MaxSections}
RenderArgs == {[sections |-> d, asset |-> f, clock |-> t] : d \in Dicts, f \in BOOLEAN, t \in Clock}

InitRender == FormAtRest /\ pc = "call" /\ args \in RenderArgs /\ ret = Return(<<>>)
CallBuildPdfBytes == Call(build_pdf_bytes(args.sections, args.asset, args.clock))
NextRender == CallBuildPdfBytes
SpecRender == InitRender /\ [][NextRender]_vars

----------------------------------------------------------------------------
(* Properties *)

RECURSIVE chop(_, _, _)
\* the pieces of s between its whitespace characters, empty pieces included
chop(s, cur, out) ==
    IF Len(s) = 0 THEN Append(out, cur)
    ELSE IF isspace(Head(s)) THEN chop(Tail(s), <<>>, Append(out, cur))
    ELSE chop(Tail(s), Append(cur, Head(s)), out)

NonEmptyTokens(s) == SelectSeq(chop(s, <<>>, <<>>), LAMBDA piece : Len(piece) > 0)

Blank(v) == v.none \/ \A i \in 1..Len(v.str) : isspace(v.str[i])

\* C4: for every text string word_count returns the number of non-empty
\* tokens left when the text is split at whitespace; leading, trailing and
\* repeated whitespace add no token, and the empty and the whitespace-only
\* string count 0.
C4_WordCountCountsTokens ==
    (pc = "done" /\ ~args.text.none) =>
        /\ ret = Return(Len(NonEmptyTokens(args.text.str)))
        /\ Blank(args.text) => ret.value = 0

C4_Witness ==
    /\ pc = "done"
    /\ args.text = Str(<<" ", "a", " ", "\n", "b">>)
    /\ ret = Return(2)

\* C5: counting the words of a missing (None) body yields 0 and raises no
\* error.
C5_NoneCountsZero ==
    (pc = "done" /\ args.text.none) => ret = Return(0)

\* C2: text_section returns ok = true exactly when word_count(body) <= k, and
\* reports an excess as ok = false (with the warning), never as an error; k
\* words pass and k+1 words fail for the limits 50 and 150 of the form.
C2_OkIffWithinLimit ==
    pc = "done" =>
        /\ ~ret.raised
        /\ ret.value.ok = (word_count(args.text).value <= args.max_words)
        /\ ret.value.warning = ~ret.value.ok
        /\ ret.value.text = args.text
        /\ \A k \in {50, 150} :
             /\ (args.max_words = k /\ args.text = Str(Words(k, <<"a">>))) => ret.value.ok
             /\ (args.max_words = k /\ args.text = Str(Words(k + 1, <<"a">>))) => ~ret.value.ok

C2_Witness ==
    /\ pc = "done"
    /\ args = [text |-> Str(Words(151, <<"a">>)), max_words |-> 150]
    /\ ~ret.raised
    /\ ~ret.value.ok

Source(v) == IF v.none THEN <<>> ELSE v.str

\* no maxlen+1 consecutive characters of t are all non-whitespace
RunsWithin(t, maxlen) ==
    \A i \in 1..(Len(t) - maxlen) : \E k \in i..(i + maxlen) : isspace(t[k])

Unspaced(t) == SelectSeq(t, LAMBDA c : c # " ")

\* first position of the run of non-whitespace characters that holds position i
RunStart(t, i) ==
    CHOOSE b \in 1..i : (b = 1 \/ isspace(t[b - 1])) /\ \A k \in b..i : ~isspace(t[k])
RunEnd(t, i) ==
    CHOOSE e \in i..Len(t) : (e = Len(t) \/ isspace(t[e + 1])) /\ \A k \in i..e : ~isspace(t[k])

\* the positions of t before which a run longer than maxlen is cut: every
\* maxlen-th character of the run, counted from its start
Cuts(t, maxlen) ==
    {i \in 1..Len(t) :
       /\ ~isspace(t[i])
       /\ RunEnd(t, i) - RunStart(t, i) + 1 > maxlen
       /\ i > RunStart(t, i)
       /\ (i - RunStart(t, i)) % maxlen = 0}

\* C6: for maxlen >= 1 the result of break_long_tokens has no run of
\* non-whitespace characters longer than maxlen; each longer run of the input
\* is cut into consecutive segments of at most maxlen characters joined by
\* single spaces and nothing else changes; without its spaces the result
\* reads as the input without its spaces; a text whose runs are all within
\* maxlen comes back unchanged.
C6_LongTokensBroken ==
    pc = "done" =>
        LET src == Source(args.s)
            cuts == Cuts(src, args.maxlen)
            shift(i) == Cardinality({c \in cuts : c <= i})
        IN  /\ RunsWithin(ret, args.maxlen)
            /\ Unspaced(ret) = Unspaced(src)
            /\ RunsWithin(src, args.maxlen) => ret = src
            /\ Len(ret) = Len(src) + Cardinality(cuts)
            /\ \A i \in 1..Len(src) : ret[i + shift(i)] = src[i]
            /\ \A c \in cuts : ret[c + shift(c) - 1] = " "

C6_Witness ==
    /\ pc = "done"
    /\ args = [s |-> Str(Token(200)), maxlen |-> DEFAULT_MAXLEN]
    /\ ret = Token(80) \o <<" ">> \o Token(80) \o <<" ">> \o Token(40)

RECURSIVE lstrip(_)
lstrip(t) == IF Len(t) > 0 /\ isspace(Head(t)) THEN lstrip(Tail(t)) ELSE t
RECURSIVE rstrip(_)
rstrip(t) == IF Len(t) > 0 /\ isspace(t[Len(t)]) THEN rstrip(SubSeq(t, 1, Len(t) - 1)) ELSE t
Trimmed(t) == rstrip(lstrip(t))

\* the body block build_pdf_bytes laid out for the k-th section
BodyBlock(k) == ret.value[2 * k + 2]
HeadingBlock(k) == ret.value[2 * k + 1]

\* C7 as stated: the body block is the literal placeholder if and only if
\* the section's content is empty, None or whitespace-only.
C7_PlaceholderIffBlank ==
    (pc = "done" /\ ~ret.raised) =>
        \A k \in 1..Len(args.sections) :
            (BodyBlock(k).txt = NO_RESPONSE) <=> Blank(args.sections[k].content)

\* C7 amended: the body block is the literal placeholder, unaltered, whenever
\* the content is empty, None or whitespace-only; otherwise it is the content
\* without its leading and trailing whitespace and with its long tokens
\* broken, which is the placeholder's text only when the content, trimmed, is
\* that very text.
C7_BodyBlock ==
    (pc = "done" /\ ~ret.raised) =>
        \A k \in 1..Len(args.sections) :
            LET content == args.sections[k].content IN
            /\ Blank(content) => BodyBlock(k).txt = NO_RESPONSE
            /\ ~Blank(content) =>
                 /\ BodyBlock(k).txt = break_long_tokens(Str(Trimmed(content.str)), DEFAULT_MAXLEN)
                 /\ RunsWithin(BodyBlock(k).txt, DEFAULT_MAXLEN)
                 /\ (BodyBlock(k).txt = NO_RESPONSE) <=> (Trimmed(content.str) = NO_RESPONSE)

C7_Witness ==
    /\ pc = "done"
    /\ ~ret.raised
    /\ Len(args.sections) = 2
    /\ args.sections[1].content = Str(<<" ", "\n">>)
    /\ BodyBlock(1).txt = NO_RESPONSE
    /\ args.sections[2].content = Str(<<"\t">> \o Token(161) \o <<" ", "b", " ">>)
    /\ BodyBlock(2).txt = Token(80) \o <<" ">> \o Token(80) \o <<" ", "a", " ", "b">>

IsDigit(c) == c \in {"0", "1", "2", "3", "4", "5", "6", "7", "8", "9"}

\* t reads YYYY-MM-DD HH:MM
IsStamp(t) ==
    /\ Len(t) = 16
    /\ t[5] = "-" /\ t[8] = "-" /\ t[11] = " " /\ t[14] = ":"
    /\ \A i \in (1..16) \ {5, 8, 11, 14} : IsDigit(t[i])

NoWhitespace(t) == SelectSeq(t, LAMBDA c : ~isspace(c))

\* C8: build_pdf_bytes lays out the title 'Data Management Plan Submission',
\* then the timestamp line, then for each section in input order its heading,
\* the title as given, immediately followed by its body; one heading and one
\* body per section and nothing else, also for the empty sequence; long
\* tokens are broken in bodies only.
C8_BlockOrder ==
    (pc = "done" /\ ~ret.raised) =>
        LET doc == ret.value
            n == Len(args.sections)
        IN  /\ Len(doc) = 2 + 2 * n
            /\ doc[1] = Block("cell", 12, HEADER)
            /\ doc[2].call = "cell" /\ doc[2].size = 10
            /\ SubSeq(doc[2].txt, 1, Len(GENERATED)) = GENERATED
            /\ IsStamp(SubSeq(doc[2].txt, Len(GENERATED) + 1, Len(doc[2].txt)))
            /\ \A k \in 1..n :
                 LET content == args.sections[k].content IN
                 /\ HeadingBlock(k) = Block("multi_cell", 11, args.sections[k].title)
                 /\ BodyBlock(k).call = "multi_cell" /\ BodyBlock(k).size = 10
                 /\ NoWhitespace(BodyBlock(k).txt) =
                      NoWhitespace(IF Blank(content) THEN NO_RESPONSE ELSE content.str)

C8_Witness ==
    /\ pc = "done"
    /\ ~ret.raised
    /\ Len(args.sections) = 2
    /\ args.sections[1] = [title |-> Token(81), content |-> Str(Token(81))]
    /\ args.sections[2] = [title |-> <<"A">>, content |-> None]
    /\ Len(ret.value) = 6
    /\ HeadingBlock(1).txt = Token(81)
    /\ BodyBlock(1).txt = Token(80) \o <<" ", "a">>
    /\ HeadingBlock(2).txt = <<"A">>
    /\ BodyBlock(2).txt = NO_RESPONSE

----------------------------------------------------------------------------
(* Properties of the evaluation cycles *)

\* field k of the form holds more words than limit
Exceeds(k, limit) == Cardinality(split_starts(sections[k].content.str)) > limit

\* a field with a word limit holds more words than its limit
SomeFieldOverLimit ==
    \E k \in 1..Len(FORM_FIELDS) :
        FORM_FIELDS[k].limited /\ Exceeds(k, FORM_FIELDS[k].max_words)

\* C1: in every evaluation cycle the PDF is built and the Download PDF button
\* offered only if that cycle's form was submitted and no section is over its
\* word limit, whatever earlier cycles did.
C1_DownloadOnlyWhenValid ==
    (page.download_button \/ pdf_bytes.built) =>
        /\ submitted
        /\ within_limits
        /\ ~SomeFieldOverLimit

C1_Witness ==
    /\ page.download_button
    /\ pdf_bytes.built
    /\ submitted
    /\ \A k \in 1..Len(FORM_FIELDS) : sections[k].content = Str(TextOf(k, 0))

\* C3: within_limits is false exactly when one of the nine bounded sections,
\* the first five with limit 150 and the last four with limit 50, is over its
\* limit; the ranking section, the sixth, never matters.
C3_AggregateFlag ==
    within_limits = ~(\/ \E k \in 1..5 : Exceeds(k, 150)
                      \/ \E k \in 7..10 : Exceeds(k, 50))

C3_Witness ==
    /\ within_limits
    /\ Exceeds(6, 150)
    /\ Exceeds(3, 149) /\ ~Exceeds(3, 150)

\* C9: with the font asset missing a render attempt ends in an error that
\* reaches the script: nothing is returned and no Download PDF button is
\* offered; in every cycle there is the complete document or none.
C9_MissingFontFails ==
    /\ (~font_exists /\ submitted /\ within_limits) =>
          /\ page.exception = "FPDFException"
          /\ ~pdf_bytes.built
          /\ ~page.download_button
    /\ pdf_bytes.built =>
          /\ font_exists
          /\ Len(pdf_bytes.doc) = 2 + 2 * Len(sections)
          /\ page.download_button /\ page.data = pdf_bytes.doc
          /\ page.exception = ""
    /\ ~pdf_bytes.built => (pdf_bytes.doc = <<>> /\ page.data = <<>> /\ ~page.download_button)

C9_Witness ==
    /\ ~font_exists
    /\ submitted
    /\ within_limits
    /\ page.exception = "FPDFException"
    /\ ~page.download_button

====
